---- MODULE Spec2Model ----
(***************************************************************************)
(* A model of the multi-model evaluation pipeline of genai-model-evaluator:*)
(* final_evaluator (orchestrator.py), the nine-way grading fan-out of      *)
(* evaluate_model_output_orchestrator (evaluation_steps.py) and the        *)
(* functions they call.                                                    *)
(*                                                                         *)
(* Text is modelled by TLA+ strings; money by integers counting 1e-8       *)
(* dollars; seconds by integers counting hundredths; a quotient by the     *)
(* pair [num, den].                                                        *)
(***************************************************************************)
EXTENDS Integers, Sequences, FiniteSets, TLC

VARIABLES
    models,              \* the `models` argument of final_evaluator
    pc,                  \* the position of final_evaluator
    idx,                 \* index in `models` of the current iteration of the for loop
    fam,                 \* index in Families of the `if` under test in the iteration
    rubric,              \* (dynamic_evaluation_criteria, dynamic_grading_scale)
    adapter,             \* the locals the adapter call of the iteration has set
    tasks,               \* the nine tasks of asyncio.gather, by dimension
    evalArgs,            \* the arguments of the running evaluate_model_output_orchestrator
    judge,               \* how the scoring model behaves in this run
    net,                 \* the network requests in flight
    issued,              \* how many times each network request was issued
    results_list,        \* results_list of final_evaluator
    score_rubric_list,   \* score_rubric_list of final_evaluator
    evaluation_results,  \* evaluation_results of final_evaluator (a list of its pieces)
    results_df,          \* results_df of final_evaluator (a list of rows)
    files,               \* the report artifacts written so far
    returned,            \* the value final_evaluator returned
    evaluations,         \* the outcomes of the calls of evaluate_model_output_orchestrator
    priced,              \* the calls of calculate_total_price, with what they returned
    parse,               \* the arguments and the result of a call of parse_xml made on its own
    environ              \* os.environ: the profile and the region the clients are made with

vars == <<models, pc, idx, fam, rubric, adapter, tasks, evalArgs, judge, net, issued,
          results_list, score_rubric_list, evaluation_results, results_df, files, returned,
          evaluations, priced, parse, environ>>

(***************************************************************************)
(* Bounds of the model.                                                    *)
(***************************************************************************)
\* the longest `models` list
MaxModels == 2

(***************************************************************************)
(* Python's str operations.                                                *)
(***************************************************************************)
\* the character at position i of s (1-based)
CharAt(s, i) == SubSeq(s, i, i)

\* `sub in s` on two str
Contains(sub, s) ==
    \E i \in 1..(Len(s) - Len(sub) + 1) : SubSeq(s, i, i + Len(sub) - 1) = sub

Whitespace == {" ", "\t", "\n", "\r", "\f"}

RECURSIVE LStrip(_)
LStrip(s) ==
    IF Len(s) > 0 /\ CharAt(s, 1) \in Whitespace
    THEN LStrip(SubSeq(s, 2, Len(s)))
    ELSE s

RECURSIVE RStrip(_)
RStrip(s) ==
    IF Len(s) > 0 /\ CharAt(s, Len(s)) \in Whitespace
    THEN RStrip(SubSeq(s, 1, Len(s) - 1))
    ELSE s

\* str.strip()
Strip(s) == RStrip(LStrip(s))

Digits == {"0", "1", "2", "3", "4", "5", "6", "7", "8", "9"}

DigitValue(c) ==
    CASE c = "0" -> 0 [] c = "1" -> 1 [] c = "2" -> 2 [] c = "3" -> 3 [] c = "4" -> 4
      [] c = "5" -> 5 [] c = "6" -> 6 [] c = "7" -> 7 [] c = "8" -> 8 [] c = "9" -> 9

\* whether s is digit(_?digit)*, the digit part of a Python integer literal
RECURSIVE IsDigitPart(_)
IsDigitPart(s) ==
    /\ Len(s) > 0
    /\ CharAt(s, 1) \in Digits
    /\ \/ Len(s) = 1
       \/ IsDigitPart(SubSeq(s, 2, Len(s)))
       \/ /\ Len(s) > 2
          /\ CharAt(s, 2) = "_"
          /\ IsDigitPart(SubSeq(s, 3, Len(s)))

\* the value of a digit part, read left to right from the value acc so far
RECURSIVE DigitPartValue(_, _)
DigitPartValue(s, acc) ==
    IF Len(s) = 0 THEN acc
    ELSE IF CharAt(s, 1) = "_" THEN DigitPartValue(SubSeq(s, 2, Len(s)), acc)
    ELSE DigitPartValue(SubSeq(s, 2, Len(s)), 10 * acc + DigitValue(CharAt(s, 1)))

\* an int() that reads 0 where int raises ValueError
PyIntOrZero(s) ==
    LET t == Strip(s)
        signed == Len(t) > 0 /\ CharAt(t, 1) \in {"+", "-"}
        body == IF signed THEN SubSeq(t, 2, Len(t)) ELSE t
    IN  [ok |-> TRUE,
         val |-> IF ~IsDigitPart(body) THEN 0
                 ELSE IF signed /\ CharAt(t, 1) = "-" THEN 0 - DigitPartValue(body, 0)
                 ELSE DigitPartValue(body, 0)]

\* int(s) on a str: [ok |-> TRUE, val |-> n], or ok = FALSE where int raises ValueError
PyInt(s) ==
    LET t == Strip(s)
        signed == Len(t) > 0 /\ CharAt(t, 1) \in {"+", "-"}
        body == IF signed THEN SubSeq(t, 2, Len(t)) ELSE t
    IN  IF IsDigitPart(body)
        THEN [ok |-> TRUE,
              val |-> IF signed /\ CharAt(t, 1) = "-"
                      THEN 0 - DigitPartValue(body, 0)
                      ELSE DigitPartValue(body, 0)]
        ELSE [ok |-> FALSE, val |-> 0]

\* " ".join(parts)
RECURSIVE JoinSpace(_)
JoinSpace(parts) ==
    IF Len(parts) = 0 THEN ""
    ELSE IF Len(parts) = 1 THEN parts[1]
    ELSE parts[1] \o " " \o JoinSpace(Tail(parts))

\* whether s occurs in x at position pos
StartsAt(x, s, pos) ==
    /\ pos >= 1
    /\ pos + Len(s) - 1 <= Len(x)
    /\ SubSeq(x, pos, pos + Len(s) - 1) = s

\* whether the piece `s` of a regular expression matches x at position pos; `s`
\* is made of characters that stand for themselves and of "." (any character,
\* under re.DOTALL)
PatternAt(x, s, pos) ==
    /\ pos >= 1
    /\ pos + Len(s) - 1 <= Len(x)
    /\ \A k \in 1..Len(s) : CharAt(s, k) = "." \/ CharAt(s, k) = CharAt(x, pos + k - 1)

(***************************************************************************)
(* parse_xml (evaluation_steps.py): the pattern                            *)
(*     <tag>(?:<[^/]*?>.*?</[^>]*?>|[^<]*?)+</tag>      (re.DOTALL)        *)
(* matched as Python's backtracking matcher does: alternatives left to     *)
(* right, a lazy repeat shortest first, the greedy group repeat one more   *)
(* iteration first, and no further iteration after one that matched the    *)
(* empty string where the previous one ended.  A position is an index in   *)
(* the text; each operator returns the position after the match the        *)
(* matcher finds first, and 0 where there is none.  The tag is put in the   *)
(* pattern as it is given, not escaped.                                    *)
(***************************************************************************)
\* the first position >= k that holds ">", 0 if none
RECURSIVE FirstGt(_, _)
FirstGt(x, k) ==
    IF k > Len(x) THEN 0
    ELSE IF CharAt(x, k) = ">" THEN k
    ELSE FirstGt(x, k + 1)

\* the closing </tag> that follows the group
MatchClose(x, close, pos) ==
    IF PatternAt(x, close, pos) THEN pos + Len(close) ELSE 0

RECURSIVE GroupRepeat(_, _, _, _, _)
RECURSIVE GroupBody(_, _, _, _, _)
RECURSIVE NestedOpen(_, _, _, _, _)
RECURSIVE NestedAny(_, _, _, _, _)
RECURSIVE PlainText(_, _, _, _, _)

\* (?:...)+ after `count` iterations, the last of which began at `last`
GroupRepeat(x, close, pos, count, last) ==
    IF count < 1
    THEN GroupBody(x, close, pos, count, last)
    ELSE LET more == IF pos # last THEN GroupBody(x, close, pos, count, pos) ELSE 0
         IN  IF more # 0 THEN more ELSE MatchClose(x, close, pos)

\* one iteration of the group: the nested-tag alternative, then the plain-text one
GroupBody(x, close, pos, count, last) ==
    LET nested == IF pos <= Len(x) /\ CharAt(x, pos) = "<"
                  THEN NestedOpen(x, close, pos + 1, count, last)
                  ELSE 0
    IN  IF nested # 0 THEN nested ELSE PlainText(x, close, pos, count, last)

\* <[^/]*?> : i runs over the characters after "<"
NestedOpen(x, close, i, count, last) ==
    IF i > Len(x) THEN 0
    ELSE LET here == IF CharAt(x, i) = ">"
                     THEN NestedAny(x, close, i + 1, count, last)
                     ELSE 0
         IN  IF here # 0 THEN here
             ELSE IF CharAt(x, i) = "/" THEN 0
             ELSE NestedOpen(x, close, i + 1, count, last)

\* .*?</[^>]*?> : j runs over the characters after the nested opening tag
NestedAny(x, close, j, count, last) ==
    IF j + 1 > Len(x) THEN 0
    ELSE LET k == IF SubSeq(x, j, j + 1) = "</" THEN FirstGt(x, j + 2) ELSE 0
             here == IF k # 0 THEN GroupRepeat(x, close, k + 1, count + 1, last) ELSE 0
         IN  IF here # 0 THEN here ELSE NestedAny(x, close, j + 1, count, last)

\* [^<]*? : e is the position after the text taken so far
PlainText(x, close, e, count, last) ==
    LET here == GroupRepeat(x, close, e, count + 1, last)
    IN  IF here # 0 THEN here
        ELSE IF e <= Len(x) /\ CharAt(x, e) # "<"
        THEN PlainText(x, close, e + 1, count, last)
        ELSE 0

\* the position after the match of the pattern that starts at p, 0 if none starts there
MatchAt(x, tag, p) ==
    LET open == "<" \o tag \o ">"
        close == "</" \o tag \o ">"
    IN  IF PatternAt(x, open, p)
        THEN GroupRepeat(x, close, p + Len(open), 0, 0)
        ELSE 0

\* re.findall(pattern, xml, re.DOTALL), scanning from position p
RECURSIVE FindAll(_, _, _)
FindAll(x, tag, p) ==
    IF p > Len(x) THEN <<>>
    ELSE LET e == MatchAt(x, tag, p)
         IN  IF e # 0
             THEN <<SubSeq(x, p, e - 1)>> \o FindAll(x, tag, e)
             ELSE FindAll(x, tag, p + 1)

\* re.sub('^<tag>|</tag>$', '', match): "$" is the end, or before a final newline
StripOutermost(match, tag) ==
    LET open == "<" \o tag \o ">"
        close == "</" \o tag \o ">"
        a == IF PatternAt(match, open, 1)
             THEN SubSeq(match, Len(open) + 1, Len(match))
             ELSE match
        n == Len(a)
    IN  IF n >= Len(close) /\ PatternAt(a, close, n - Len(close) + 1)
        THEN SubSeq(a, 1, n - Len(close))
        ELSE IF n > Len(close) /\ PatternAt(a, close \o "\n", n - Len(close))
        THEN SubSeq(a, 1, n - Len(close) - 1) \o "\n"
        ELSE a

\* the cleaned matches, in order
RECURSIVE CleanMatches(_, _)
CleanMatches(matches, tag) ==
    IF Len(matches) = 0 THEN <<>>
    ELSE <<StripOutermost(matches[1], tag)>> \o CleanMatches(Tail(matches), tag)

parse_xml(xml, tag) ==
    LET matches == FindAll(xml, tag, 1)
    IN  IF Len(matches) > 0
        THEN Strip(JoinSpace(CleanMatches(matches, tag)))
        ELSE ""

(***************************************************************************)
(* Numbers.                                                                *)
(***************************************************************************)
\* round(num/den) to the nearest integer, ties to the even one (den > 0)
RoundHalfEven(num, den) ==
    LET q == num \div den
        r == num % den
    IN  IF 2 * r < den THEN q
        ELSE IF 2 * r > den THEN q + 1
        ELSE IF q % 2 = 0 THEN q ELSE q + 1

\* The double that stands for a decimal value lies just below or just above it.
FloatErrors == {-1, 1}

\* round() of the double that stands for num/den and lies on the side `err` of it:
\* the nearest integer, and at a decimal tie the one on the double's side (den > 0)
RoundFloat(num, den, err) ==
    LET q == num \div den
        r == num % den
    IN  IF 2 * r < den THEN q
        ELSE IF 2 * r > den THEN q + 1
        ELSE IF err > 0 THEN q + 1 ELSE q

(***************************************************************************)
(* pricing_calculator.py.  A price is a number of 1e-8 dollars.            *)
(***************************************************************************)
\* model_input_token_prices: the price of 1000 input tokens
model_input_token_prices ==
    ("amazon.titan-text-lite-v1" :> 30000) @@
    ("amazon.titan-text-express-v1" :> 750000) @@
    ("ai21.j2-mid-v1" :> 1250000) @@
    ("ai21.j2-ultra-v1" :> 1880000) @@
    ("anthropic.claude-instant-v1" :> 80000) @@
    ("anthropic.claude-v2" :> 800000) @@
    ("anthropic.claude-v2:1" :> 800000) @@
    ("anthropic.claude-3-sonnet-20240229-v1:0" :> 300000) @@
    ("anthropic.claude-3-haiku-20240307-v1:0" :> 25000) @@
    ("cohere.command-text-v14" :> 150000) @@
    ("cohere.command-light-text-v14" :> 30000) @@
    ("meta.llama2-13b-chat-v1" :> 75000) @@
    ("meta.llama2-70b-chat-v1" :> 195000) @@
    ("meta.llama3-8b-instruct-v1:0" :> 40000) @@
    ("meta.llama3-70b-instruct-v1:0" :> 265000) @@
    ("mistral.mistral-large-2402-v1:0" :> 800000) @@
    ("mistral.mistral-7b-instruct-v0:2" :> 15000) @@
    ("mistral.mixtral-8x7b-instruct-v0:1" :> 45000) @@
    ("gpt-4-0125-preview" :> 1000000) @@
    ("gpt-4-32k" :> 6000000)

\* model_output_token_prices: the price of 1000 output tokens
model_output_token_prices ==
    ("amazon.titan-text-lite-v1" :> 40000) @@
    ("amazon.titan-text-express-v1" :> 160000) @@
    ("ai21.j2-mid-v1" :> 1250000) @@
    ("ai21.j2-ultra-v1" :> 1880000) @@
    ("anthropic.claude-instant-v1" :> 240000) @@
    ("anthropic.claude-v2" :> 2400000) @@
    ("anthropic.claude-v2:1" :> 2400000) @@
    ("anthropic.claude-3-sonnet-20240229-v1:0" :> 1500000) @@
    ("anthropic.claude-3-haiku-20240307-v1:0" :> 125000) @@
    ("cohere.command-text-v14" :> 200000) @@
    ("cohere.command-light-text-v14" :> 60000) @@
    ("meta.llama2-13b-chat-v1" :> 100000) @@
    ("meta.llama2-70b-chat-v1" :> 256000) @@
    ("meta.llama3-8b-instruct-v1:0" :> 60000) @@
    ("meta.llama3-70b-instruct-v1:0" :> 350000) @@
    ("mistral.mistral-large-2402-v1:0" :> 2400000) @@
    ("mistral.mistral-7b-instruct-v0:2" :> 20000) @@
    ("mistral.mixtral-8x7b-instruct-v0:1" :> 70000) @@
    ("gpt-4-0125-preview" :> 3000000) @@
    ("gpt-4-32k" :> 12000000)

\* a lookup that prices a model_id the table lacks at the first rate of the table
calculate_input_price_fallback(token_number, model_id) ==
    IF model_id \in DOMAIN model_input_token_prices
    THEN RoundHalfEven(token_number * model_input_token_prices[model_id], 1000)
    ELSE RoundHalfEven(token_number * model_input_token_prices["amazon.titan-text-lite-v1"],
                       1000)

\* round((token_number / 1000) * price, 8), or 0 for a model_id the table lacks
calculate_input_price(token_number, model_id) ==
    IF model_id \in DOMAIN model_input_token_prices
    THEN RoundHalfEven(token_number * model_input_token_prices[model_id], 1000)
    ELSE 0

\* an output price with a fee of 0.0000004 on every call
calculate_output_price_fee(token_number, model_id) ==
    IF model_id \in DOMAIN model_output_token_prices
    THEN RoundHalfEven(token_number * model_output_token_prices[model_id], 1000) + 40
    ELSE 0

calculate_output_price(token_number, model_id) ==
    IF model_id \in DOMAIN model_output_token_prices
    THEN RoundHalfEven(token_number * model_output_token_prices[model_id], 1000)
    ELSE 0

\* a pricing that adds and scales the two costs without rounding the results
calculate_total_price_unrounded(input_tokens, output_tokens, model, err) ==
    LET input_cost == calculate_input_price(input_tokens, model)
        output_cost == calculate_output_price(output_tokens, model)
    IN  <<input_cost, output_cost, input_cost + output_cost,
          (input_cost + output_cost) * 1000>>

\* (input_cost, output_cost, total_cost, total_cost_1000); `err` is the side on
\* which the double input_cost + output_cost lies of the decimal sum
calculate_total_price(input_tokens, output_tokens, model, err) ==
    LET input_cost == calculate_input_price(input_tokens, model)
        output_cost == calculate_output_price(output_tokens, model)
        \* round(input_cost + output_cost, 6): to a multiple of 100 units
        total_cost == 100 * RoundFloat(input_cost + output_cost, 100, err)
        \* round(total_cost * 1000, 6)
        total_cost_1000 == 100 * RoundFloat(total_cost * 1000, 100, err)
    IN  <<input_cost, output_cost, total_cost, total_cost_1000>>

\* a call of calculate_total_price with what it returned
PriceCall(input_tokens, output_tokens, model, err) ==
    [input_tokens |-> input_tokens,
     output_tokens |-> output_tokens,
     model |-> model,
     costs |-> calculate_total_price(input_tokens, output_tokens, model, err)]

(***************************************************************************)
(* The grading fan-out (evaluation_steps.py).                              *)
(***************************************************************************)
\* the coroutines handed to asyncio.gather, in argument order: eval_model_<d>
Dimensions ==
    <<"accuracy", "completeness", "flow", "structure", "conciseness", "clarity",
      "objectivity", "tone", "task">>

DimensionSet == {Dimensions[k] : k \in 1..Len(Dimensions)}

\* the modelId every grading call invokes
ScoringModel == "anthropic.claude-3-sonnet-20240229-v1:0"

\* model_execution after the reply arrived: (score, evaluation_summary)
model_execution(output_text) ==
    [score |-> Strip(parse_xml(output_text, "score")),
     summary |-> Strip(parse_xml(output_text, "thoughts"))]

\* the order in which final_score converts the nine scores with int()
ScoreSumOrder ==
    <<"completeness", "accuracy", "flow", "structure", "conciseness", "clarity",
      "objectivity", "tone", "task">>

\* the key of a dimension's score in final_score_rubric
ScoreKey(d) == "model_" \o d \o "_score"

\* a final_score_rubric keyed by the bare names of the dimensions
final_score_rubric_bare(model_name, result) ==
    ("completeness" :> result[2].score) @@
    ("accuracy" :> result[1].score) @@
    ("flow" :> result[3].score) @@
    ("structure" :> result[4].score) @@
    ("conciseness" :> result[5].score) @@
    ("clarity" :> result[6].score) @@
    ("objectivity" :> result[7].score) @@
    ("tone" :> result[8].score) @@
    ("task" :> result[9].score)

\* final_score_rubric: result[k] is what gather returned for Dimensions[k]
final_score_rubric(model_name, result) ==
    ("model_name" :> model_name) @@
    ("model_completeness_score" :> result[2].score) @@
    ("model_accuracy_score" :> result[1].score) @@
    ("model_flow_score" :> result[3].score) @@
    ("model_structure_score" :> result[4].score) @@
    ("model_conciseness_score" :> result[5].score) @@
    ("model_clarity_score" :> result[6].score) @@
    ("model_objectivity_score" :> result[7].score) @@
    ("model_tone_score" :> result[8].score) @@
    ("model_task_score" :> result[9].score)

\* the nine int(...) of final_score, in the order of the sum
ScoreInts(result) ==
    <<PyInt(result[2].score), PyInt(result[1].score), PyInt(result[3].score),
      PyInt(result[4].score), PyInt(result[5].score), PyInt(result[6].score),
      PyInt(result[7].score), PyInt(result[8].score), PyInt(result[9].score)>>

RECURSIVE SumVals(_)
SumVals(ints) ==
    IF Len(ints) = 0 THEN 0 ELSE ints[1].val + SumVals(Tail(ints))

\* a final_score that divides with //
final_score_floor(ints) == [num |-> SumVals(ints) \div 9, den |-> 1]

\* (a + ... + i) / 9.0 as the quotient it is
final_score(ints) == [num |-> SumVals(ints), den |-> 9]

\* final_summary: the candidate summary, then (heading, score, rationale) per dimension
final_summary(model_summary, result) ==
    <<<<"Full Summary", model_summary, "">>,
      <<"Model Completeness", result[2].score, result[2].summary>>,
      <<"Model Accuracy", result[1].score, result[1].summary>>,
      <<"Model Flow Summary", result[3].score, result[3].summary>>,
      <<"Model Structure", result[4].score, result[4].summary>>,
      <<"Model Conciseness", result[5].score, result[5].summary>>,
      <<"Model Clarity Summary", result[6].score, result[6].summary>>,
      <<"Model Objectivity", result[7].score, result[7].summary>>,
      <<"Model Tone", result[8].score, result[8].summary>>,
      <<"Model Task", result[9].score, result[9].summary>>>>

\* what evaluate_model_output_orchestrator does once gather has returned `result`:
\* raised = TRUE where an int() raises ValueError, else the returned triple
EvaluateResult(model_name, model_summary, result) ==
    LET ints == ScoreInts(result)
    IN  IF \E k \in 1..Len(ints) : ~ints[k].ok
        THEN [raised |-> TRUE]
        ELSE [raised |-> FALSE,
              final_score |-> final_score(ints),
              final_summary |-> final_summary(model_summary, result),
              final_score_rubric |-> final_score_rubric(model_name, result)]

(***************************************************************************)
(* orchestration_helper.py.                                                *)
(***************************************************************************)
\* OrchestrationHelper(...).format() of the object `self` that __init__ filled
Format(self) ==
    ("Model" :> self.model) @@
    ("Time Length" :> self.time_length) @@
    ("Character Count" :> self.character_count) @@
    ("Char Process Time" :> self.char_process_time) @@
    ("Input Cost" :> self.input_cost) @@
    ("Output Cost" :> self.output_cost) @@
    ("Total Cost" :> self.total_cost) @@
    ("Total Cost(1000)" :> self.total_cost_1000) @@
    ("Summary Score" :> self.final_score) @@
    ("Invoke Response" :> self.summary_invoke_response)

\* OrchestrationHelper(...).evaluation_results(): the text naming the model and its
\* final summary
EvaluationResultsOf(self) == <<self.model, self.final_summary>>

(***************************************************************************)
(* The inputs of a run.                                                    *)
(***************************************************************************)
\* the model identifiers a run may be given: the selectable one that the grading
\* calls invoke too, an embedding one, two more selectable ones, one that names no
\* vendor family, and one that names two
Catalogue ==
    <<"anthropic.claude-3-sonnet-20240229-v1:0", "amazon.titan-embed-text-v1",
      "anthropic.claude-v2", "cohere.command-text-v14", "gpt-4-32k", "meta.mistral-7b-x">>

\* the `models` lists: the runs of at most MaxModels neighbours in Catalogue
ModelLists ==
    {SubSeq(Catalogue, w[1], w[2]) :
        w \in {v \in (1..Len(Catalogue)) \X (0..Len(Catalogue)) : v[2] - v[1] < MaxModels}}

\* text_extraction(pdf_path)
input_text_data == "The cat sat on the mat."

\* task_prompt
TaskPrompt == "Summarize this document in 2 sentences."

\* what a vendor adapter returns: (output_text, input_tokens, output_tokens)
AdapterResponses ==
    {[text |-> "<summary>A cat sat.</summary>", input_tokens |-> 1000, output_tokens |-> 50]}

\* the durations end - start a call may take, in milliseconds
Elapsed == {4, 1500}

\* round(end - start, 2), in hundredths of a second
Round2(ms) == RoundHalfEven(ms, 10)

\* the ways the scoring model may behave in a run
JudgeBehaviours == {"graded", "outofrange", "missing", "nonint", "error"}

\* the reply to dynamic_grading_criteria's request
RubricReply(j) ==
    IF j = "outofrange"
    THEN "I cannot help with that."
    ELSE "<evaluation_criteria>\n2 sentences?\n</evaluation_criteria>"
         \o "\n<evaluation_grading>0-5</evaluation_grading>"

\* dynamic_grading_criteria's result for every reply of the scoring model:
\* (eval_criteria, eval_grading)
RubricResult ==
    [j \in JudgeBehaviours |->
        <<Strip(parse_xml(RubricReply(j), "evaluation_criteria")),
          Strip(parse_xml(RubricReply(j), "evaluation_grading"))>>]

\* the score the scoring model gives each dimension when it grades as asked
GradedScore ==
    ("accuracy" :> "5") @@ ("completeness" :> "4") @@ ("flow" :> "3") @@
    ("structure" :> "2") @@ ("conciseness" :> "1") @@ ("clarity" :> "0") @@
    ("objectivity" :> "5") @@ ("tone" :> "4") @@ ("task" :> "4")

\* the reply to the grading request of dimension d
GradeReply(j, d) ==
    LET thoughts == "<thoughts>" \o d \o " ok</thoughts>\n"
        score == IF j = "outofrange" /\ d = "flow" THEN "7"
                 ELSE IF j = "outofrange" /\ d = "tone" THEN "-1"
                 ELSE IF j = "nonint" /\ d = "task" THEN "4.5"
                 ELSE GradedScore[d]
    IN  IF j = "missing" /\ d = "flow"
        THEN thoughts \o "Score: 3"
        ELSE thoughts \o "<score>" \o score \o "</score>"

\* the grading requests that end in an error
GradeFails(j, d) == j = "error" /\ d \in {"accuracy", "task"}

\* the lists a run is given when the scoring model does not grade as asked
FaultLists == {l \in ModelLists : Len(l) > 0 /\ l[1] = "anthropic.claude-v2"}

\* model_execution's result for every reply of the scoring model
GradeResult ==
    [j \in JudgeBehaviours |-> [d \in DimensionSet |-> model_execution(GradeReply(j, d))]]

(***************************************************************************)
(* Network requests.                                                       *)
(***************************************************************************)
\* a request: its purpose, the modelId invoked, and the iteration (index in `models`,
\* index of the family `if`, dimension) it belongs to
Request(kind, modelId, i, f, d) ==
    [kind |-> kind, modelId |-> modelId, idx |-> i, fam |-> f, dim |-> d]

\* `issued` after request r went out and was sent again on a retry
IssueWithRetry(r) ==
    IF r \in DOMAIN issued
    THEN [issued EXCEPT ![r] = @ + 2]
    ELSE issued @@ (r :> 2)

\* `issued` after request r went out once more
Issue(r) ==
    IF r \in DOMAIN issued
    THEN [issued EXCEPT ![r] = @ + 1]
    ELSE issued @@ (r :> 1)

\* a call that returns while its request is still in flight
FinishNever(r) == net

\* `net` once the blocking call that sent r has its reply (or its error)
Finish(r) == net \ {r}

RubricRequest == Request("rubric", ScoringModel, 0, 0, "")

SummaryRequest == Request("summarize", models[idx], idx, fam, "")

GradeRequest(d) == Request("grade", ScoringModel, idx, fam, d)

CostRequest == Request("cost", "anthropic.claude-3-sonnet-20240229-v1:0", 0, 0, "")

(***************************************************************************)
(* final_evaluator (orchestrator.py).                                      *)
(***************************************************************************)
\* the vendor families, in the order of the `if`s of the loop body
Families == <<"anthropic", "mistral", "meta", "cohere", "amazon", "ai21">>

\* a test of line 60 that knows "stability" only
IsSkippedStability(model) == Contains("stability", model)

\* the test of line 60
IsSkipped(model) == Contains("stability", model) \/ Contains("embed", model)

\* a chain of tests whose last branch takes every model
FamilyMatchesOrLast(f, model) == Contains(Families[f], model) \/ f = Len(Families)

\* the test of the fam-th `if` of the loop body
FamilyMatches(f, model) == Contains(Families[f], model)

NoTask == [state |-> "none", score |-> "", summary |-> ""]

\* no call of parse_xml is under way on its own
NoParse == [xml |-> "", tag |-> "", state |-> "none", result |-> ""]

NoAdapter ==
    [summary_invoke_response |-> "", input_token_count |-> 0, output_token_count |-> 0,
     time_length |-> 0, char_process_time |-> [num |-> 0, den |-> 1],
     costs |-> <<0, 0, 0, 0>>]

\* what os.getenv returns for a variable that is not set
None == "None"

\* the environment app.py leaves: its setdefault calls have filled the profile and
\* the region
AppEnviron == [profile_name |-> "default", region_name |-> "us-east-1"]

\* the environments final_evaluator is called in: the one of app.py, and one that
\* names a region and no profile
Environs == {AppEnviron, [profile_name |-> None, region_name |-> "eu-west-1"]}

\* the runs that are followed from an environment without a profile
EnvironLists == {<<"anthropic.claude-v2">>, <<"anthropic.claude-v2", "cohere.command-text-v14">>}

\* os.environ after get_bedrock_client: without a profile_name it sets the
\* profile and the region to their defaults
get_bedrock_client(env) ==
    IF env.profile_name = None
    THEN [env EXCEPT !.profile_name = "default", !.region_name = "us-east-1"]
    ELSE env

Init ==
    /\ models \in ModelLists
    /\ judge \in JudgeBehaviours
    /\ judge # "graded" => models \in FaultLists
    /\ pc = "start"
    /\ idx = 0
    /\ fam = 0
    /\ rubric = <<>>
    /\ adapter = NoAdapter
    /\ tasks = [d \in DimensionSet |-> NoTask]
    /\ evalArgs = <<>>
    /\ net = {}
    /\ issued = <<>>
    /\ results_list = <<>>
    /\ score_rubric_list = <<>>
    /\ evaluation_results = <<>>
    /\ results_df = <<>>
    /\ files = {}
    /\ returned = <<>>
    /\ evaluations = <<>>
    /\ priced = <<>>
    /\ parse = NoParse
    /\ environ \in Environs
    /\ environ # AppEnviron => (models \in EnvironLists /\ judge = "graded")

\* lines 45-57, up to the request of dynamic_grading_criteria
CallRubric ==
    /\ pc = "start"
    /\ pc' = "rubric"
    /\ net' = net \cup {RubricRequest}
    /\ issued' = Issue(RubricRequest)
    /\ UNCHANGED <<models, idx, fam, rubric, adapter, tasks, evalArgs, judge, results_list,
                   score_rubric_list, evaluation_results, results_df, files, returned, evaluations, priced, parse, environ>>

\* dynamic_grading_criteria returns (eval_criteria, eval_grading); the loop begins
RubricReturns ==
    /\ pc = "rubric"
    /\ rubric' = RubricResult[judge]
    /\ net' = Finish(RubricRequest)
    /\ pc' = "loop"
    /\ idx' = 1
    /\ UNCHANGED <<models, fam, adapter, tasks, evalArgs, judge, issued, results_list,
                   score_rubric_list, evaluation_results, results_df, files, returned, evaluations, priced, parse, environ>>

\* a call of final_evaluator raises: nothing is returned (the locals of the loop
\* body are left to the step that raises)
Raise ==
    /\ pc' = "failed"
    /\ UNCHANGED <<models, idx, fam, rubric, evalArgs, judge, issued, results_list,
                   score_rubric_list, evaluation_results, results_df, files, returned>>

\* the request of dynamic_grading_criteria fails
RubricFails ==
    /\ pc = "rubric"
    /\ net' = Finish(RubricRequest)
    /\ UNCHANGED <<adapter, tasks, evaluations, priced, parse, environ>>
    /\ Raise

\* line 60: a skipped model
SkipModel ==
    /\ pc = "loop"
    /\ idx <= Len(models)
    /\ IsSkipped(models[idx])
    /\ idx' = idx + 1
    /\ UNCHANGED <<models, pc, fam, rubric, adapter, tasks, evalArgs, judge, net, issued,
                   results_list, score_rubric_list, evaluation_results, results_df, files,
                   returned, evaluations, priced, parse, environ>>

\* line 60: a model that is not skipped reaches the first `if`
EnterBody ==
    /\ pc = "loop"
    /\ idx <= Len(models)
    /\ ~IsSkipped(models[idx])
    /\ pc' = "body"
    /\ fam' = 1
    /\ UNCHANGED <<models, idx, rubric, adapter, tasks, evalArgs, judge, net, issued,
                   results_list, score_rubric_list, evaluation_results, results_df, files,
                   returned, evaluations, priced, parse, environ>>

\* an `if "<family>" in model` that is false
FamilyMisses ==
    /\ pc = "body"
    /\ fam <= Len(Families)
    /\ ~FamilyMatches(fam, models[idx])
    /\ fam' = fam + 1
    /\ UNCHANGED <<models, pc, idx, rubric, adapter, tasks, evalArgs, judge, net, issued,
                   results_list, score_rubric_list, evaluation_results, results_df, files,
                   returned, evaluations, priced, parse, environ>>

\* an `if "<family>" in model` that is true: its adapter sends the request
InvokeAdapter ==
    /\ pc = "body"
    /\ fam <= Len(Families)
    /\ FamilyMatches(fam, models[idx])
    /\ pc' = "invoke"
    /\ net' = net \cup {SummaryRequest}
    /\ issued' = Issue(SummaryRequest)
    /\ UNCHANGED <<models, idx, fam, rubric, adapter, tasks, evalArgs, judge, results_list,
                   score_rubric_list, evaluation_results, results_df, files, returned, evaluations, priced, parse, environ>>

\* the end of the loop body: the next model
EndBody ==
    /\ pc = "body"
    /\ fam > Len(Families)
    /\ pc' = "loop"
    /\ idx' = idx + 1
    /\ UNCHANGED <<models, fam, rubric, adapter, tasks, evalArgs, judge, net, issued,
                   results_list, score_rubric_list, evaluation_results, results_df, files,
                   returned, evaluations, priced, parse, environ>>

\* the arguments with the two parts of the rubric exchanged
EvaluateArgsSwapped(model, invoke_response) ==
    <<input_text_data, model, invoke_response, TaskPrompt, rubric[2], rubric[1]>>

\* the locals of the loop body once the adapter returned `response` after
\* time_length hundredths of a second
AdapterLocals(response, time_length, model, err) ==
    [summary_invoke_response |-> response.text,
     input_token_count |-> response.input_tokens,
     output_token_count |-> response.output_tokens,
     time_length |-> time_length,
     char_process_time |-> [num |-> 100 * Len(input_text_data), den |-> time_length],
     costs |-> calculate_total_price(response.input_tokens, response.output_tokens,
                                     model, err)]

\* the arguments of asyncio.run(evaluate_model_output_orchestrator(...))
EvaluateArgs(model, invoke_response) ==
    <<input_text_data, model, invoke_response, TaskPrompt, rubric[1], rubric[2]>>

\* asyncio.gather wraps the nine coroutines in tasks
Dispatch == [d \in DimensionSet |-> [state |-> "pending", score |-> "", summary |-> ""]]

\* the adapter returns; the call is timed and priced, and asyncio.run starts
\* evaluate_model_output_orchestrator, which hands its nine coroutines to gather.
\* character_count / time_length raises ZeroDivisionError when time_length is 0,
\* after the adapter's results and time_length were assigned
AdapterReturns ==
    /\ pc = "invoke"
    /\ \E response \in AdapterResponses, ms \in Elapsed, err \in FloatErrors :
          LET time_length == Round2(ms)
          IN  /\ net' = Finish(SummaryRequest)
              /\ IF time_length = 0
                 THEN /\ adapter' =
                            [adapter EXCEPT !.summary_invoke_response = response.text,
                                            !.input_token_count = response.input_tokens,
                                            !.output_token_count = response.output_tokens,
                                            !.time_length = time_length]
                      /\ UNCHANGED <<tasks, evaluations, priced, parse, environ>>
                      /\ Raise
                 ELSE /\ adapter' = AdapterLocals(response, time_length, models[idx], err)
                      /\ priced' = Append(priced, PriceCall(response.input_tokens,
                                                            response.output_tokens,
                                                            models[idx], err))
                      /\ evalArgs' = EvaluateArgs(models[idx], response.text)
                      /\ tasks' = Dispatch
                      /\ pc' = "grading"
                      /\ UNCHANGED <<models, idx, fam, rubric, judge, issued, results_list,
                                     score_rubric_list, evaluation_results, results_df,
                                     files, returned, evaluations, parse, environ>>

\* an invoke_<family> that logs the error and does not raise it again: the loop
\* body goes on to its next `if`
AdapterFailsLogged ==
    /\ pc = "invoke"
    /\ net' = Finish(SummaryRequest)
    /\ pc' = "body"
    /\ fam' = fam + 1
    /\ UNCHANGED <<models, idx, rubric, adapter, tasks, evalArgs, judge, issued,
                   results_list, score_rubric_list, evaluation_results, results_df, files,
                   returned, evaluations, priced, parse, environ>>

\* the adapter's request fails: invoke_<family> logs and re-raises
AdapterFails ==
    /\ pc = "invoke"
    /\ net' = Finish(SummaryRequest)
    /\ UNCHANGED <<adapter, tasks, evaluations, priced, parse, environ>>
    /\ Raise

(***************************************************************************)
(* The nine tasks of asyncio.gather (evaluate_model_output_orchestrator).  *)
(***************************************************************************)
\* an eval_model_<d> that sends its request a second time
TaskSendsTwice(d) ==
    /\ pc = "grading"
    /\ tasks[d].state = "pending"
    /\ tasks' = [tasks EXCEPT ![d].state = "inflight"]
    /\ net' = net \cup {GradeRequest(d), GradeRequest(d \o " again")}
    /\ issued' = Issue(GradeRequest(d))
    /\ environ' = get_bedrock_client(environ)
    /\ UNCHANGED <<models, pc, idx, fam, rubric, adapter, evalArgs, judge, results_list,
                   score_rubric_list, evaluation_results, results_df, files, returned,
                   evaluations, priced, parse>>

\* eval_model_<d> has its client and awaits client.invoke_model
TaskSends(d) ==
    /\ pc = "grading"
    /\ tasks[d].state = "pending"
    /\ tasks' = [tasks EXCEPT ![d].state = "inflight"]
    /\ net' = net \cup {GradeRequest(d)}
    /\ issued' = Issue(GradeRequest(d))
    /\ environ' = get_bedrock_client(environ)
    /\ UNCHANGED <<models, pc, idx, fam, rubric, adapter, evalArgs, judge, results_list,
                   score_rubric_list, evaluation_results, results_df, files, returned, evaluations, priced, parse>>

\* the reply arrives: model_execution parses it and eval_model_<d> returns
TaskReturns(d) ==
    /\ pc = "grading"
    /\ tasks[d].state = "inflight"
    /\ ~GradeFails(judge, d)
    /\ tasks' = [tasks EXCEPT ![d] = [state |-> "done",
                                     score |-> GradeResult[judge][d].score,
                                     summary |-> GradeResult[judge][d].summary]]
    /\ net' = Finish(GradeRequest(d))
    /\ UNCHANGED <<models, pc, idx, fam, rubric, adapter, evalArgs, judge, issued,
                   results_list, score_rubric_list, evaluation_results, results_df, files,
                   returned, evaluations, priced, parse, environ>>

\* the request fails: eval_model_<d> raises
TaskFails(d) ==
    /\ pc = "grading"
    /\ tasks[d].state = "inflight"
    /\ GradeFails(judge, d)
    /\ tasks' = [tasks EXCEPT ![d].state = "failed"]
    /\ net' = Finish(GradeRequest(d))
    /\ UNCHANGED <<models, pc, idx, fam, rubric, adapter, evalArgs, judge, issued,
                   results_list, score_rubric_list, evaluation_results, results_df, files,
                   returned, evaluations, priced, parse, environ>>

\* a gather that returns with the first task that does
GatherDoneAny(ts) == \E d \in DimensionSet : ts[d].state = "done"

\* whether `await asyncio.gather(...)` returns: every task has returned
GatherDone(ts) == \A d \in DimensionSet : ts[d].state = "done"

\* a gather whose list is one place off the order of its arguments
GatherResultShifted(ts) ==
    [k \in 1..Len(Dimensions) |->
        [score |-> ts[Dimensions[(k % Len(Dimensions)) + 1]].score,
         summary |-> ts[Dimensions[(k % Len(Dimensions)) + 1]].summary]]

\* the list gather returns: the results in the order of its arguments
GatherResult(ts) ==
    [k \in 1..Len(Dimensions) |->
        [score |-> ts[Dimensions[k]].score, summary |-> ts[Dimensions[k]].summary]]

\* a results_list that takes its new row in front
InsertRow(rows, row) == <<row>> \o rows

\* results_list.append(result.format())
AppendRow(rows, row) == Append(rows, row)

\* gather returns; lines 988-1069 and the rest of the `if` body of final_evaluator
GatherReturns ==
    /\ pc = "grading"
    /\ GatherDone(tasks)
    /\ LET out == EvaluateResult(evalArgs[2], evalArgs[3], GatherResult(tasks))
       IN  /\ evaluations' = Append(evaluations, out)
           /\ UNCHANGED <<priced, parse, environ>>
           /\ IF out.raised
              THEN /\ UNCHANGED <<adapter, tasks, net>>
                   /\ Raise
              ELSE LET result ==
                           [model |-> models[idx],
                            time_length |-> adapter.time_length,
                            character_count |-> Len(input_text_data),
                            char_process_time |-> adapter.char_process_time,
                            input_cost |-> adapter.costs[1],
                            output_cost |-> adapter.costs[2],
                            total_cost |-> adapter.costs[3],
                            total_cost_1000 |-> adapter.costs[4],
                            final_score |-> out.final_score,
                            summary_invoke_response |-> adapter.summary_invoke_response,
                            final_summary |-> out.final_summary]
                   IN  /\ results_list' = AppendRow(results_list, Format(result))
                       /\ evaluation_results' =
                              Append(evaluation_results, EvaluationResultsOf(result))
                       /\ score_rubric_list' =
                              Append(score_rubric_list, out.final_score_rubric)
                       /\ pc' = "body"
                       /\ fam' = fam + 1
                       /\ UNCHANGED <<models, idx, rubric, adapter, tasks, evalArgs, judge,
                                      net, issued, results_df, files, returned>>

\* a gather whose exception leaves the tasks that are left as they are
GatherRaisesAlone ==
    /\ pc = "grading"
    /\ \E d \in DimensionSet : tasks[d].state = "failed"
    /\ evaluations' = Append(evaluations, [raised |-> TRUE])
    /\ UNCHANGED <<adapter, tasks, net, priced, parse, environ>>
    /\ Raise

\* a gather that lets a task's exception out only when no task is left running
GatherRaisesWaits ==
    /\ pc = "grading"
    /\ \E d \in DimensionSet : tasks[d].state = "failed"
    /\ \A d \in DimensionSet : tasks[d].state \notin {"pending", "inflight"}
    /\ evaluations' = Append(evaluations, [raised |-> TRUE])
    /\ UNCHANGED <<adapter, tasks, net, priced, parse, environ>>
    /\ Raise

\* a task raised: gather raises at once, and asyncio.run cancels the tasks that
\* are left before it lets the exception out
GatherRaises ==
    /\ pc = "grading"
    /\ \E d \in DimensionSet : tasks[d].state = "failed"
    /\ tasks' = [d \in DimensionSet |->
                    IF tasks[d].state \in {"pending", "inflight"}
                    THEN [tasks[d] EXCEPT !.state = "cancelled"]
                    ELSE tasks[d]]
    /\ net' = {r \in net : r.kind # "grade"}
    /\ evaluations' = Append(evaluations, [raised |-> TRUE])
    /\ UNCHANGED <<priced, parse, environ>>
    /\ UNCHANGED adapter
    /\ Raise

(***************************************************************************)
(* final_evaluator after the loop (lines 260-294).                         *)
(***************************************************************************)
\* results_df['Total Cost'] *= 1000
TimesThousand(rows) ==
    [k \in 1..Len(rows) |-> [rows[k] EXCEPT !["Total Cost"] = @ * 1000]]

\* lines 260-285: the two DataFrames, the CSV file, the request of
\* evaluate_model_performance.  With no row the DataFrame has no column and
\* results_df[['Model', ...]] raises KeyError
AfterLoop ==
    /\ pc = "loop"
    /\ idx > Len(models)
    /\ IF results_list = <<>>
       THEN /\ UNCHANGED <<adapter, tasks, net, evaluations, priced, parse, environ>>
            /\ Raise
       ELSE /\ results_df' = TimesThousand(results_list)
            /\ files' = files \cup {"reports/model_performance_comparison.csv"}
            /\ net' = net \cup {CostRequest}
            /\ issued' = Issue(CostRequest)
            /\ pc' = "cost"
            /\ UNCHANGED <<models, idx, fam, rubric, adapter, tasks, evalArgs, judge,
                           results_list, score_rubric_list, evaluation_results, returned, evaluations, priced, parse, environ>>

\* the cost narratives evaluate_model_performance may return
CostNarratives == {"## Findings"}

\* whether plot_model_performance_comparisons can draw: it selects a model's scores
\* by name, and the bars of a name that two rows carry do not fit its positions
RubricPlotFits(rows) ==
    \A a, b \in 1..Len(rows) : rows[a]["model_name"] = rows[b]["model_name"] => a = b

\* evaluate_model_performance returns; lines 286-294
CostReturns ==
    /\ pc = "cost"
    /\ net' = Finish(CostRequest)
    /\ \E invoke_costs_eval_response \in CostNarratives :
          IF RubricPlotFits(score_rubric_list)
          THEN /\ files' = files \cup {"reports/graph.png", "reports/rubric_graph.png",
                                         "reports/summary-evaluation_results.txt",
                                         "reports/cost-evaluation_results.txt"}
               /\ returned' = <<results_df, evaluation_results, invoke_costs_eval_response,
                                score_rubric_list>>
               /\ pc' = "done"
               /\ UNCHANGED <<models, idx, fam, rubric, adapter, tasks, evalArgs, judge,
                              issued, results_list, score_rubric_list, evaluation_results,
                              results_df, evaluations, priced, parse, environ>>
          ELSE /\ files' = files \cup {"reports/graph.png"}
               /\ pc' = "failed"
               /\ UNCHANGED <<models, idx, fam, rubric, adapter, tasks, evalArgs, judge,
                              issued, results_list, score_rubric_list, evaluation_results,
                              results_df, returned, evaluations, priced, parse, environ>>

\* the request of evaluate_model_performance fails
CostFails ==
    /\ pc = "cost"
    /\ net' = Finish(CostRequest)
    /\ UNCHANGED <<adapter, tasks, evaluations, priced, parse, environ>>
    /\ Raise

Next ==
    \/ CallRubric
    \/ RubricReturns
    \/ RubricFails
    \/ SkipModel
    \/ EnterBody
    \/ FamilyMisses
    \/ InvokeAdapter
    \/ EndBody
    \/ AdapterReturns
    \/ AdapterFails
    \/ \E d \in DimensionSet : TaskSends(d)
    \/ \E d \in DimensionSet : TaskReturns(d)
    \/ \E d \in DimensionSet : TaskFails(d)
    \/ GatherReturns
    \/ GatherRaises
    \/ AfterLoop
    \/ CostReturns
    \/ CostFails

Spec == Init /\ [][Next]_vars

(***************************************************************************)
(* The run when the interpreter keeps running and every request gets its   *)
(* reply or its error in the end.                                          *)
(***************************************************************************)
\* the lists of the runs followed to their end: a skipped model, an evaluated one
LiveLists == {<<"amazon.titan-embed-text-v1">>, <<"anthropic.claude-v2">>} \cap ModelLists

InitLive == Init /\ models \in LiveLists

SpecLive == InitLive /\ [][Next]_vars /\ WF_vars(Next)

(***************************************************************************)
(* evaluate_model_output_orchestrator as a function of the nine scores:    *)
(* the run of one model, at the point where gather has its nine results.   *)
(***************************************************************************)
\* the score texts the nine grading calls may return
ScoreTexts == {"0", "4", "5"}

InitScore ==
    /\ models = <<"anthropic.claude-v2">>
    /\ judge = "graded"
    /\ pc = "grading"
    /\ idx = 1
    /\ fam = 1
    /\ rubric = RubricResult[judge]
    /\ \E response \in AdapterResponses, err \in FloatErrors :
          /\ adapter = AdapterLocals(response, Round2(1500), models[idx], err)
          /\ priced = <<PriceCall(response.input_tokens, response.output_tokens,
                                  models[idx], err)>>
          /\ evalArgs = EvaluateArgs(models[idx], response.text)
    /\ \E texts \in [DimensionSet -> ScoreTexts] :
          tasks = [d \in DimensionSet |->
                      [state |-> "done", score |-> texts[d],
                       summary |-> GradeResult[judge][d].summary]]
    /\ net = {}
    /\ issued = [r \in {RubricRequest, SummaryRequest}
                         \cup {GradeRequest(d) : d \in DimensionSet} |-> 1]
    /\ results_list = <<>>
    /\ score_rubric_list = <<>>
    /\ evaluation_results = <<>>
    /\ results_df = <<>>
    /\ files = {}
    /\ returned = <<>>
    /\ evaluations = <<>>
    /\ parse = NoParse
    /\ environ = AppEnviron

SpecScore == InitScore /\ [][GatherReturns]_vars

(***************************************************************************)
(* calculate_total_price as a function of its arguments: up to MaxCalls    *)
(* calls for one model identifier.                                         *)
(***************************************************************************)
MaxCalls == 3

\* identifiers the price tables hold, and identifiers they lack
PriceModels ==
    {"amazon.titan-text-lite-v1", "anthropic.claude-v2",
     "anthropic.claude-3-haiku-20240307-v1:0", "amazon.titan-embed-text-v1",
     "meta.mistral-7b-x"}

InputTokens == {-1, 0, 1, 2, 5, 1000}

OutputTokens == {0, 5, 10}

InitPrice ==
    /\ models \in {<<m>> : m \in PriceModels}
    /\ judge = "graded"
    /\ pc = "price"
    /\ idx = 1
    /\ fam = 0
    /\ rubric = <<>>
    /\ adapter = NoAdapter
    /\ tasks = [d \in DimensionSet |-> NoTask]
    /\ evalArgs = <<>>
    /\ net = {}
    /\ issued = <<>>
    /\ results_list = <<>>
    /\ score_rubric_list = <<>>
    /\ evaluation_results = <<>>
    /\ results_df = <<>>
    /\ files = {}
    /\ returned = <<>>
    /\ evaluations = <<>>
    /\ priced = <<>>
    /\ parse = NoParse
    /\ environ = AppEnviron

\* one call of calculate_total_price
CalculateTotalPrice ==
    /\ pc = "price"
    /\ Len(priced) < MaxCalls
    /\ \E input_tokens \in InputTokens, output_tokens \in OutputTokens, err \in FloatErrors :
          priced' = Append(priced, PriceCall(input_tokens, output_tokens, models[idx], err))
    /\ UNCHANGED <<models, pc, idx, fam, rubric, adapter, tasks, evalArgs, judge, net, issued,
                   results_list, score_rubric_list, evaluation_results, results_df, files,
                   returned, evaluations, parse, environ>>

SpecPrice == InitPrice /\ [][CalculateTotalPrice]_vars

(***************************************************************************)
(* parse_xml as a function of its arguments: one call on a text made of    *)
(* at most MaxTokens pieces, or on a text of nested regions.               *)
(***************************************************************************)
MaxTokens == 4

\* the pieces of a text: the tags of two elements, a character, a blank
ParseTokens == {"<s>", "</s>", "<x>", "</x>", "3", " "}

\* the strings of a sequence, one after the other
RECURSIVE Concat(_)
Concat(parts) ==
    IF Len(parts) = 0 THEN "" ELSE Head(parts) \o Concat(Tail(parts))

\* every text of at most MaxTokens pieces
TokenTexts ==
    {Concat(l) : l \in UNION {[1..n -> ParseTokens] : n \in 0..MaxTokens}}

\* what an element may hold: text, blanks, other elements, an element of its own tag
Contents ==
    {"", "3", " 3 ", "A <x>n</x> B", "<x>1</x><x>2</x>", "<s>3</s>", "<s><x>3</x></s>"}

\* the parts of a text of regions: an <s> element with its content, or a part that
\* holds no <s> element
Parts ==
    {[text |-> "<s>" \o c \o "</s>", contents |-> <<c>>] : c \in Contents}
        \cup {[text |-> t, contents |-> <<>>] : t \in {" ", "<x>3</x>"}}

\* the texts of one or two parts, each with the contents of its <s> elements in order
RegionTexts ==
    {[xml |-> l[1].text, contents |-> l[1].contents] : l \in [1..1 -> Parts]}
        \cup {[xml |-> l[1].text \o l[2].text, contents |-> l[1].contents \o l[2].contents] :
                  l \in [1..2 -> Parts]}

\* the tags asked for: a name, and a name that is a metacharacter of the pattern
ParseTags == {"s", "."}

InitParse ==
    /\ models = <<>>
    /\ judge = "graded"
    /\ pc = "parse"
    /\ idx = 0
    /\ fam = 0
    /\ rubric = <<>>
    /\ adapter = NoAdapter
    /\ tasks = [d \in DimensionSet |-> NoTask]
    /\ evalArgs = <<>>
    /\ net = {}
    /\ issued = <<>>
    /\ results_list = <<>>
    /\ score_rubric_list = <<>>
    /\ evaluation_results = <<>>
    /\ results_df = <<>>
    /\ files = {}
    /\ returned = <<>>
    /\ evaluations = <<>>
    /\ priced = <<>>
    /\ \E xml \in TokenTexts \cup {w.xml : w \in RegionTexts}, tag \in ParseTags :
          parse = [xml |-> xml, tag |-> tag, state |-> "called", result |-> ""]
    /\ environ = AppEnviron

\* the call of parse_xml runs and returns
ParseXml ==
    /\ pc = "parse"
    /\ parse.state = "called"
    /\ parse' = [parse EXCEPT !.state = "returned", !.result = parse_xml(parse.xml, parse.tag)]
    /\ UNCHANGED <<models, pc, idx, fam, rubric, adapter, tasks, evalArgs, judge, net, issued,
                   results_list, score_rubric_list, evaluation_results, results_df, files,
                   returned, evaluations, priced, environ>>

SpecParse == InitParse /\ [][ParseXml]_vars

(***************************************************************************)
(* Properties of a run.                                                    *)
(***************************************************************************)
\* the requests of a kind that were issued so far
IssuedOf(kind) == {r \in DOMAIN issued : r.kind = kind}

\* the evaluations that returned their triple
Returned == {k \in 1..Len(evaluations) : ~evaluations[k].raised}

\* C1: in every run dynamic_grading_criteria is requested once and no more; by the
\* time the first adapter request goes out its call has returned; and every
\* evaluation of the run is handed the (criteria, scale) pair it returned, unchanged.
RubricOnceForAll ==
    /\ IssuedOf("rubric") \subseteq {RubricRequest}
    /\ pc # "start" => RubricRequest \in DOMAIN issued /\ issued[RubricRequest] = 1
    /\ IssuedOf("summarize") # {} =>
          /\ RubricRequest \in DOMAIN issued
          /\ RubricRequest \notin net
          /\ rubric = RubricResult[judge]
    /\ evalArgs # <<>> =>
          /\ evalArgs[5] = RubricResult[judge][1]
          /\ evalArgs[6] = RubricResult[judge][2]

\* the second model of a list is under evaluation with the rubric of the first
RubricSharedReached ==
    /\ pc = "grading"
    /\ idx = 2
    /\ Len(results_list) = 1
    /\ issued[RubricRequest] = 1
    /\ evalArgs[5] = "2 sentences?"
    /\ evalArgs[6] = "0-5"

\* C2: while the adapter request of an evaluation is in flight, no adapter or
\* grading request of an earlier evaluation is, none of the nine grading tasks is
\* unfinished, and every adapter call made before has its timed and priced row.
ModelsInSequence ==
    \A r \in net : r.kind = "summarize" =>
        /\ \A q \in net : q.kind \in {"summarize", "grade"} => q = r
        /\ \A d \in DimensionSet : tasks[d].state \in {"none", "done"}
        /\ Len(results_list) = Cardinality(IssuedOf("summarize")) - 1
        /\ \A k \in 1..Len(results_list) :
              {"Time Length", "Total Cost", "Summary Score"} \subseteq DOMAIN results_list[k]

\* the adapter request of the second model is in flight after the first model's row
SecondModelReached ==
    /\ pc = "invoke"
    /\ idx = 2
    /\ Len(results_list) = 1
    /\ results_list[1]["Model"] = models[1]
    /\ \A d \in DimensionSet : tasks[d].state = "done"

\* C3: at no point of a run are more than nine network requests in flight.
AtMostNineInFlight == Cardinality(net) <= 9

\* the nine grading requests are in flight together
NineInFlightReached ==
    /\ Cardinality(net) = 9
    /\ \A d \in DimensionSet : tasks[d].state = "inflight"

\* C4: when an evaluation starts, gather holds all nine grading tasks before any is
\* waited for; and while no grading call has failed the evaluation ends, with its
\* result or otherwise, only in a state where all nine have completed.
NineThenResultStep ==
    /\ (pc # "grading" /\ pc' = "grading") =>
          \A d \in DimensionSet : tasks'[d].state = "pending"
    /\ (pc = "grading" /\ pc' # "grading"
            /\ \A d \in DimensionSet : tasks[d].state # "failed") =>
          \A d \in DimensionSet : tasks[d].state = "done"
    /\ Len(evaluations') > Len(evaluations) /\ ~evaluations'[Len(evaluations')].raised =>
          \A d \in DimensionSet : tasks[d].state = "done"

NineThenResult == [][NineThenResultStep]_vars

\* an evaluation has returned its triple after the nine calls completed
ResultAfterNineReached ==
    /\ pc = "body"
    /\ Returned # {}
    /\ \A d \in DimensionSet : tasks[d].state = "done"

\* the heading of a dimension in the narrative
Heading ==
    ("accuracy" :> "Model Accuracy") @@ ("completeness" :> "Model Completeness") @@
    ("flow" :> "Model Flow Summary") @@ ("structure" :> "Model Structure") @@
    ("conciseness" :> "Model Conciseness") @@ ("clarity" :> "Model Clarity Summary") @@
    ("objectivity" :> "Model Objectivity") @@ ("tone" :> "Model Tone") @@
    ("task" :> "Model Task")

\* C5: whatever the order in which the nine grading calls completed, the score and
\* the rationale an evaluation records for a dimension, in its score map and in its
\* narrative, are the ones the grading call of that dimension returned.
OwnResultPerDimension ==
    \A k \in Returned : \A d \in DimensionSet :
        LET own == GradeResult[judge][d]
            out == evaluations[k]
        IN  /\ out.final_score_rubric[ScoreKey(d)] = own.score
            /\ \E n \in 1..Len(out.final_summary) :
                  out.final_summary[n] = <<Heading[d], own.score, own.summary>>
            /\ \A n \in 1..Len(out.final_summary) :
                  out.final_summary[n][1] = Heading[d] =>
                      out.final_summary[n] = <<Heading[d], own.score, own.summary>>

\* an evaluation recorded nine results that differ from dimension to dimension
OwnResultReached ==
    \E k \in Returned :
        /\ evaluations[k].final_score_rubric["model_accuracy_score"] = "5"
        /\ evaluations[k].final_score_rubric["model_clarity_score"] = "0"
        /\ evaluations[k].final_summary[7] = <<"Model Clarity Summary", "0", "clarity ok">>
        /\ evaluations[k].final_summary[10] = <<"Model Task", "4", "task ok">>

\* C6 as claimed: the keys of the score map an evaluation returns are the names of
\* the nine dimensions and nothing else.
ScoreMapKeysAreDimensions ==
    \A k \in Returned : DOMAIN evaluations[k].final_score_rubric = DimensionSet

\* C6: the keys of the score map an evaluation returns are "model_name" and
\* "model_<dimension>_score" for each of the nine dimensions, and nothing else,
\* whatever the order in which the grading calls completed.
ScoreMapKeys ==
    \A k \in Returned :
        DOMAIN evaluations[k].final_score_rubric =
            {"model_name"} \cup {ScoreKey(d) : d \in DimensionSet}

\* an evaluation returned its score map, and carries the model's name in it
ScoreMapReached ==
    \E k \in Returned :
        /\ evaluations[k].final_score_rubric["model_name"] = models[1]
        /\ evaluations[k].final_score_rubric["model_tone_score"] = "4"

\* a score text without the blanks around it and without its sign
Unsigned(s) ==
    LET t == Strip(s)
    IN  IF Len(t) > 0 /\ CharAt(t, 1) \in {"+", "-"} THEN SubSeq(t, 2, Len(t)) ELSE t

\* whether a score text spells an integer: an optional sign, then digits, which
\* single underscores may separate
SpellsInteger(s) ==
    LET body == Unsigned(s)
    IN  /\ Len(body) > 0
        /\ \A i \in 1..Len(body) : CharAt(body, i) \in Digits \cup {"_"}
        /\ CharAt(body, 1) \in Digits
        /\ CharAt(body, Len(body)) \in Digits
        /\ ~Contains("__", body)

\* the number the digits of s spell after the number acc
RECURSIVE Spelled(_, _)
Spelled(s, acc) ==
    IF Len(s) = 0 THEN acc
    ELSE Spelled(SubSeq(s, 2, Len(s)),
                 IF CharAt(s, 1) = "_" THEN acc ELSE 10 * acc + DigitValue(CharAt(s, 1)))

\* the integer a score text spells
SpelledValue(s) ==
    IF CharAt(Strip(s), 1) = "-" THEN 0 - Spelled(Unsigned(s), 0) ELSE Spelled(Unsigned(s), 0)

\* the sum of the integers the score texts of the tasks ds spell
RECURSIVE SpelledSum(_)
SpelledSum(ds) ==
    IF ds = {} THEN 0
    ELSE LET d == CHOOSE x \in ds : TRUE
         IN  SpelledValue(tasks[d].score) + SpelledSum(ds \ {d})

\* C7: for every nine integer scores the aggregate an evaluation returns is their
\* sum over 9 as it is, not rounded: 9 times the aggregate is the sum.
AggregateIsMean ==
    \A k \in Returned :
        LET aggregate == evaluations[k].final_score
        IN  /\ aggregate.den > 0
            /\ 9 * aggregate.num = SpelledSum(DimensionSet) * aggregate.den
            /\ results_list[k]["Summary Score"] = aggregate

\* the scores 5, 5, 5, 5, 5, 5, 5, 5, 4 gave 44/9
AggregateReached ==
    /\ Returned # {}
    /\ \A d \in DimensionSet : tasks[d].score = IF d = "task" THEN "4" ELSE "5"
    /\ evaluations[1].final_score = [num |-> 44, den |-> 9]

\* C8: when one of the nine score texts is empty or spells no integer, the
\* evaluation fails as a whole: it returns no aggregate, no narrative and no score
\* map, no row is appended, and no number stands in for the text.
UnreadableScoreFails ==
    (/\ pc # "grading"
     /\ \A d \in DimensionSet : tasks[d].state = "done"
     /\ \E d \in DimensionSet : ~SpellsInteger(tasks[d].score)) =>
        /\ pc = "failed"
        /\ evaluations # <<>>
        /\ evaluations[Len(evaluations)] = [raised |-> TRUE]
        /\ Len(results_list) = Len(evaluations) - 1
        /\ Len(score_rubric_list) = Len(evaluations) - 1
        /\ returned = <<>>

\* an evaluation failed on a reply that carries no score tag
UnreadableScoreReached ==
    /\ pc = "failed"
    /\ \A d \in DimensionSet : tasks[d].state = "done"
    /\ tasks["flow"].score = ""
    /\ evaluations = <<[raised |-> TRUE]>>
    /\ results_list = <<>>

\* an evaluation failed on a score that is no integer
NonIntegerScoreReached ==
    /\ pc = "failed"
    /\ tasks["task"].score = "4.5"
    /\ evaluations = <<[raised |-> TRUE]>>

\* C9 as claimed: every score in a score map is an integer of 0..5 and every
\* aggregate in a row lies in [0, 5]; a reply whose score is outside 0..5 gives no row.
ScoresInRange ==
    /\ \A k \in 1..Len(score_rubric_list) : \A d \in DimensionSet :
          score_rubric_list[k][ScoreKey(d)] \in {"0", "1", "2", "3", "4", "5"}
    /\ \A k \in 1..Len(results_list) :
          LET aggregate == results_list[k]["Summary Score"]
          IN  0 <= aggregate.num /\ aggregate.num <= 5 * aggregate.den
    /\ (\E d \in DimensionSet :
           /\ tasks[d].state = "done"
           /\ SpellsInteger(tasks[d].score)
           /\ tasks[d].score \notin {"0", "1", "2", "3", "4", "5"}) =>
          pc \in {"grading", "failed"}

\* C10 as claimed: for an entry of the list at most one adapter is called and at
\* most one row and one score map are appended, whatever the identifier.
OneAdapterPerEntry ==
    \A i \in 1..Len(models) :
        /\ Cardinality({r \in IssuedOf("summarize") : r.idx = i}) <= 1
        /\ Cardinality({k \in 1..Len(results_list) :
                           results_list[k]["Model"] = models[i]}) <= 1
        /\ Cardinality({k \in 1..Len(score_rubric_list) :
                           score_rubric_list[k]["model_name"] = models[i]}) <= 1

\* whether a model identifier names one of the six vendor families
NamesFamily(model) ==
    \E f \in {"anthropic", "mistral", "meta", "cohere", "amazon", "ai21"} : Contains(f, model)

\* whether a model identifier denotes an embedding-only or non-text model
NamesNoTextModel(model) == Contains("embed", model) \/ Contains("stability", model)

\* the models of the input list that are not passed over, in input order
RECURSIVE Evaluated(_)
Evaluated(list) ==
    IF list = <<>> THEN <<>>
    ELSE (IF ~NamesNoTextModel(Head(list)) /\ NamesFamily(Head(list))
          THEN <<Head(list)>> ELSE <<>>) \o Evaluated(Tail(list))

\* C11: the model identifiers of the rows a run returns are, in row order, the
\* models of the input list that were not passed over, in input order, and the
\* i-th score map returned names the model of the i-th row.
RowsFollowInput ==
    pc = "done" =>
        /\ Len(returned[4]) = Len(returned[1])
        /\ [k \in 1..Len(returned[1]) |-> returned[1][k]["Model"]] = Evaluated(models)
        /\ \A k \in 1..Len(returned[1]) :
              returned[4][k]["model_name"] = returned[1][k]["Model"]

\* a run returned the rows of two models in the order of the input list
TwoRowsReturned ==
    /\ pc = "done"
    /\ Len(models) = 2
    /\ Len(returned[1]) = 2
    /\ returned[1][1]["Model"] = models[1]
    /\ returned[1][2]["Model"] = models[2]
    /\ returned[1][1]["Model"] # returned[1][2]["Model"]

\* C12: a model whose identifier contains "embed" or "stability" is passed over,
\* whatever vendor family it names as well: the loop goes to the next model at once,
\* no request is sent and nothing is priced for it, and no row and no score map
\* ever carries it.
NoTextModelSkippedStep ==
    /\ (pc = "loop" /\ idx <= Len(models) /\ NamesNoTextModel(models[idx])) =>
          /\ pc' = "loop"
          /\ idx' = idx + 1
          /\ UNCHANGED <<net, issued, adapter, tasks, evalArgs, results_list,
                         score_rubric_list, evaluation_results, evaluations>>
    /\ \A r \in DOMAIN issued' \ DOMAIN issued :
          r.idx >= 1 => ~NamesNoTextModel(models[r.idx])
    /\ Len(results_list') # Len(results_list) =>
          \A k \in 1..Len(results_list') : ~NamesNoTextModel(results_list'[k]["Model"])
    /\ Len(score_rubric_list') # Len(score_rubric_list) =>
          \A k \in 1..Len(score_rubric_list') :
              ~NamesNoTextModel(score_rubric_list'[k]["model_name"])

NoTextModelSkipped == [][NoTextModelSkippedStep]_vars

\* the loop has passed over an embedding model of the amazon family and has the
\* next model's adapter request in flight
SkippedThenNextReached ==
    /\ pc = "invoke"
    /\ idx = 2
    /\ NamesNoTextModel(models[1])
    /\ Contains("amazon", models[1])
    /\ \A r \in DOMAIN issued : r.idx # 1
    /\ results_list = <<>>

\* C13 as claimed: a run whose list holds only embedding models, and whose rubric
\* request was answered, does not fail, and the table it returns has no row.
EmbeddingOnlyRunCompletes ==
    (/\ Len(models) > 0
     /\ \A i \in 1..Len(models) : Contains("embed", models[i])
     /\ rubric # <<>>) =>
        /\ pc # "failed"
        /\ pc = "done" => returned[1] = <<>>

\* whether a model identifier is neither passed over nor of a known vendor family
UnknownFamily(model) == ~NamesNoTextModel(model) /\ ~NamesFamily(model)

\* C14: a model that is not passed over as embedding or non-text and names none of
\* the six vendor families is skipped in silence: while the loop is at it no
\* request is sent, no row or score map is appended and nothing is raised, and the
\* loop leaves it for the next model.
UnknownFamilySkippedStep ==
    /\ (idx \in 1..Len(models) /\ UnknownFamily(models[idx])) =>
          /\ pc \in {"loop", "body"}
          /\ pc' \in {"loop", "body"}
          /\ idx' = idx \/ (idx' = idx + 1 /\ pc' = "loop")
          /\ UNCHANGED <<net, issued, adapter, tasks, evalArgs, results_list,
                         score_rubric_list, evaluation_results, evaluations>>
    /\ \A r \in DOMAIN issued' \ DOMAIN issued :
          r.idx >= 1 => ~UnknownFamily(models[r.idx])
    /\ Len(results_list') # Len(results_list) =>
          \A k \in 1..Len(results_list') : ~UnknownFamily(results_list'[k]["Model"])
    /\ Len(score_rubric_list') # Len(score_rubric_list) =>
          \A k \in 1..Len(score_rubric_list') :
              ~UnknownFamily(score_rubric_list'[k]["model_name"])

UnknownFamilySkipped == [][UnknownFamilySkippedStep]_vars

\* the loop has left a model of no known family and has the adapter request of
\* the model after it in flight
UnknownThenNextReached ==
    /\ pc = "invoke"
    /\ idx = 2
    /\ UnknownFamily(models[1])
    /\ \A r \in DOMAIN issued : r.idx # 1
    /\ results_list = <<>>

\* C15 as claimed: an adapter call whose latency was recorded as 0 does not make
\* the run fail where it computes the characters per second: the run goes on to
\* price the call and to grade the model's output.
ZeroLatencyGuarded ==
    (/\ adapter.summary_invoke_response # ""
     /\ adapter.time_length = 0
     /\ pc = "failed") =>
        Cardinality(IssuedOf("summarize")) = Len(evaluations)

\* the calls of calculate_total_price made so far
Calls == 1..Len(priced)

\* the identifier is a key of neither price table
AbsentFromTables(model) ==
    /\ model \notin DOMAIN model_input_token_prices
    /\ model \notin DOMAIN model_output_token_prices

\* C16: a call of calculate_total_price for a model identifier that the price
\* tables do not hold returns (0, 0, 0, 0), whatever the two token counts are.
AbsentModelPricedAtZero ==
    \A k \in Calls :
        AbsentFromTables(priced[k].model) => priced[k].costs = <<0, 0, 0, 0>>

AbsentModelPricedReached ==
    \E j, k \in Calls :
        /\ AbsentFromTables(priced[j].model)
        /\ priced[j].input_tokens = 1000 /\ priced[j].output_tokens = 10
        /\ priced[j].costs = <<0, 0, 0, 0>>
        /\ priced[k].input_tokens = -1 /\ priced[k].output_tokens = 5
        /\ priced[k].costs = <<0, 0, 0, 0>>

\* n is num/den rounded to an integer: no integer is nearer to num/den (den > 0)
Nearest(n, num, den) ==
    LET d == den * n - num
    IN  IF d >= 0 THEN 2 * d <= den ELSE 2 * (0 - d) <= den

\* x units of 1e-8 make a number of `decimals` decimals that is `value` units of
\* 1e-8 rounded to that many decimals
RoundedTo(x, value, decimals) ==
    LET unit == IF decimals = 8 THEN 1 ELSE 100
    IN  x % unit = 0 /\ Nearest(x \div unit, value, unit)

Combined ==
    {t \in Calls \X Calls \X Calls :
        /\ priced[t[3]].model = priced[t[1]].model
        /\ priced[t[3]].model = priced[t[2]].model
        /\ priced[t[3]].input_tokens = priced[t[1]].input_tokens + priced[t[2]].input_tokens
        /\ priced[t[3]].output_tokens =
              priced[t[1]].output_tokens + priced[t[2]].output_tokens}

\* by how much value c of the combined call exceeds the sum of the two calls' values
Excess(t, c) == priced[t[3]].costs[c] - (priced[t[1]].costs[c] + priced[t[2]].costs[c])

Summarized == {<<r.idx, r.fam>> : r \in IssuedOf("summarize")}

\* C19: no request goes out twice; and a run that returns with k rows has issued
\* 10k + 2 requests: one for the rubric, one for the cost narrative, and for each
\* of k evaluated models one to its adapter and one per grading dimension.
RequestsPerRun ==
    /\ \A r \in DOMAIN issued : issued[r] = 1
    /\ pc = "done" =>
          LET k == Len(returned[1])
          IN  /\ Cardinality(DOMAIN issued) = 10 * k + 2
              /\ Cardinality(IssuedOf("rubric")) = 1
              /\ Cardinality(IssuedOf("cost")) = 1
              /\ Cardinality(IssuedOf("summarize")) = k
              /\ Cardinality(Summarized) = k
              /\ Cardinality(IssuedOf("grade")) = 9 * k
              /\ \A it \in Summarized : \A d \in DimensionSet :
                    Cardinality({r \in IssuedOf("grade") :
                                    r.idx = it[1] /\ r.fam = it[2] /\ r.dim = d}) = 1
              /\ \A r \in IssuedOf("grade") : <<r.idx, r.fam>> \in Summarized

TwentyTwoRequestsReached ==
    /\ pc = "done"
    /\ Len(returned[1]) = 2
    /\ Cardinality(DOMAIN issued) = 22
    /\ \A r \in DOMAIN issued : issued[r] = 1

\* a grading task of the running evaluation has raised
SomeTaskFailed == \E d \in DimensionSet : tasks[d].state = "failed"

\* what holds once a call has failed: nothing is returned, every request went out
\* once, and none went out for a model after the one the failure belongs to
FailureReturnsNothing ==
    /\ SomeTaskFailed => pc \in {"grading", "failed"}
    /\ (pc = "failed" \/ SomeTaskFailed) =>
          /\ returned = <<>>
          /\ \A r \in DOMAIN issued : issued[r] = 1 /\ r.idx <= idx

\* a step in which a request fails, and the steps after a failure
FailurePropagatesStep ==
    /\ (RubricFails \/ AdapterFails \/ CostFails \/ GatherRaises) =>
          /\ pc' = "failed"
          /\ UNCHANGED <<issued, returned, results_list, score_rubric_list,
                         evaluation_results>>
    /\ (\E d \in DimensionSet : TaskFails(d)) => UNCHANGED <<issued, returned, idx, fam>>
    /\ SomeTaskFailed =>
          /\ UNCHANGED <<idx, fam, returned, results_list, score_rubric_list>>
          /\ \A r \in DOMAIN issued' \ DOMAIN issued : r.kind = "grade" /\ r.idx = idx
    /\ pc = "failed" => UNCHANGED vars

\* C20: when a request of the run fails (the rubric's, an adapter's, a grading
\* task's or the cost narrative's), final_evaluator fails: it takes no further step,
\* the request is not sent again, no adapter is called for a later model, and
\* nothing is returned, whatever rows earlier models have produced.
FailurePropagates == []FailureReturnsNothing /\ [][FailurePropagatesStep]_vars

\* the adapter request of the second model failed after the first model's row,
\* narrative and score map were recorded
FailedAfterRowReached ==
    /\ pc = "failed"
    /\ idx = 2
    /\ Len(results_list) = 1 /\ Len(score_rubric_list) = 1 /\ Len(evaluations) = 1
    /\ Cardinality(IssuedOf("summarize")) = 2
    /\ adapter.time_length # 0
    /\ returned = <<>>

\* C21 as claimed: when final_evaluator fails, none of the report artifacts (the
\* table file, the two chart images, the two narrative files) has been written.
NoReportOnFailure == pc = "failed" => files = {}

\* C22 as claimed: a grading call sends one request, always to the same scoring
\* model, and the scoring model is none of the models the run evaluates.
ScoringModelApart ==
    \A r \in IssuedOf("grade") :
        /\ issued[r] = 1
        /\ \A q \in IssuedOf("grade") : q.modelId = r.modelId
        /\ \A i \in 1..Len(models) : models[i] # r.modelId

\* the text holds "<tag>" and, somewhere after it, "</tag>"
HasPair(xml, tag) ==
    LET open == "<" \o tag \o ">"
        close == "</" \o tag \o ">"
    IN  \E p, q \in 1..Len(xml) :
            StartsAt(xml, open, p) /\ StartsAt(xml, close, q) /\ q >= p + Len(open)

\* C23 as claimed: whatever the text and the tag name, parse_xml returns the empty
\* string when the text holds no open/close pair of the tag.
AbsentTagGivesEmpty ==
    (parse.state = "returned" /\ ~HasPair(parse.xml, parse.tag)) => parse.result = ""

\* C24 as claimed, up to the blanks at the two ends of the result, which parse_xml
\* strips: for a text of properly nested elements parse_xml returns the contents of
\* the outermost <tag> elements, inner tags included, joined by one space.
OutermostContents ==
    (parse.state = "returned" /\ parse.tag = "s") =>
        \A w \in RegionTexts :
            w.xml = parse.xml => parse.result = Strip(JoinSpace(w.contents))

\* final_evaluator has returned or raised
Terminated == pc \in {"done", "failed"}

\* the grading tasks of the running evaluation whose request went out
Sent == {d \in DimensionSet :
            \E r \in IssuedOf("grade") : r.idx = idx /\ r.fam = fam /\ r.dim = d}

\* C25 as claimed, the part on a call that never returns: the run does not end
\* before every request it sent has got its reply or its error.
EndsAfterEveryReply ==
    Terminated => \A d \in Sent : tasks[d].state \in {"done", "failed"}

\* at its end the run has no request in flight, and a request it sent got its reply
\* or its error unless a grading task of the same gather had failed
EndsWithNothingInFlight ==
    Terminated =>
        /\ net = {}
        /\ \A d \in DimensionSet : tasks[d].state # "inflight"
        /\ \A d \in Sent : tasks[d].state \in {"done", "failed"} \/ SomeTaskFailed

\* a step of the run while a call is under way: at a blocking call nothing
\* happens but the end of that call, and the gather is left only when the nine
\* tasks have returned or one of them has failed
WaitsForCallStep ==
    /\ pc \in {"rubric", "invoke", "cost"} => net # {} /\ net' = {}
    /\ (pc = "grading" /\ pc' # "grading") =>
          \/ \A d \in DimensionSet : tasks[d].state = "done"
          \/ SomeTaskFailed

\* C25: when every request gets its reply or its error in the end, the run ends
\* (it returns or it fails); while the request of a blocking call (rubric, adapter,
\* cost narrative) has neither, the run takes no step, and it leaves a gather only
\* when the nine grading tasks have returned or one has failed: a grading request
\* without reply holds the run up unless another task of its gather fails, in
\* which case it is cancelled and the run fails.
TerminatesUnlessHung ==
    <>Terminated /\ []EndsWithNothingInFlight /\ [][WaitsForCallStep]_vars

\* the run failed while a grading request it sent had no reply: it was cancelled
HungCallCancelledReached ==
    /\ pc = "failed"
    /\ \E d \in Sent : tasks[d].state = "cancelled"
    /\ \E d \in DimensionSet : tasks[d].state = "done"

\* C26 as claimed: in the table final_evaluator returns, the 'Total Cost' of a row
\* is the total_cost calculate_total_price returned for the call of that row, its
\* 'Total Cost(1000)' is the total_cost_1000 of that call, and the second field is
\* 1000 times the first.
ReturnedCostFields ==
    pc = "done" =>
        \A k \in 1..Len(returned[1]) :
            LET row == returned[1][k]
            IN  /\ k <= Len(priced)
                /\ row["Total Cost"] = priced[k].costs[3]
                /\ row["Total Cost(1000)"] = priced[k].costs[4]
                /\ row["Total Cost(1000)"] % 1000 = 0
                /\ row["Total Cost"] = row["Total Cost(1000)"] \div 1000

\* C27 as claimed: when the grading fan-out fails, the calls that are in flight
\* stay in flight (they are not cancelled and run on).
InFlightCallsRunOn ==
    [][(pc = "grading" /\ SomeTaskFailed /\ pc' = "failed") =>
           \A d \in DimensionSet :
               tasks[d].state = "inflight" => tasks'[d].state = "inflight"]_vars

\* the fan-out can fail as soon as one of its calls has, whatever the others do
FailsWithoutWaiting == (pc = "grading" /\ SomeTaskFailed) => ENABLED GatherRaises

\* the step on which the fan-out fails: the calls that are left are cancelled,
\* their requests are dropped, and nothing of the fan-out is kept
FanOutFailureStep ==
    (pc = "grading" /\ SomeTaskFailed /\ pc' = "failed") =>
        /\ \A d \in DimensionSet :
               tasks'[d].state = IF tasks[d].state \in {"pending", "inflight"}
                                 THEN "cancelled"
                                 ELSE tasks[d].state
        /\ \A r \in net' : r.kind # "grade"
        /\ evaluations'[Len(evaluations')].raised
        /\ Len(evaluations') = Len(evaluations) + 1
        /\ results_list' = results_list
        /\ score_rubric_list' = score_rubric_list
        /\ evaluation_results' = evaluation_results
        /\ returned' = <<>>

\* C27 (amended): when one of the concurrent grading calls fails while others
\* are in flight, evaluate_model_output_orchestrator fails with that failure
\* without waiting for the others; the calls still in flight are cancelled as
\* the run ends, and the results of the calls that had returned are discarded.
FanOutFailsAtOnce == []FailsWithoutWaiting /\ [][FanOutFailureStep]_vars

FailedWhileInFlightReached ==
    /\ pc = "failed"
    /\ SomeTaskFailed
    /\ \E d \in Sent : tasks[d].state = "cancelled"
    /\ \E d \in DimensionSet : tasks[d].state = "done" /\ tasks[d].score # ""
    /\ evaluations # <<>>
    /\ evaluations[Len(evaluations)].raised

\* a grading call of the fan-out is running
FanOutInFlight == pc = "grading" /\ \E d \in DimensionSet : tasks[d].state = "inflight"

\* C28: while grading calls of a fan-out are running, no step writes the state
\* the calls and final_evaluator share: the process environment, the rubric, and
\* the lists of rows and score cards; the rubric is never modified once created.
NothingSharedForWrite ==
    [][/\ rubric # <<>> => rubric' = rubric
       /\ (FanOutInFlight \/ (pc = "grading" /\ pc' = "grading")) =>
              /\ environ' = environ
              /\ rubric' = rubric
              /\ results_list' = results_list
              /\ score_rubric_list' = score_rubric_list
              /\ evaluation_results' = evaluation_results]_vars

(***************************************************************************)
(* app.py: the metrics shown once final_evaluator has returned results_df. *)
(***************************************************************************)
\* results_df[name].min()
ColumnMin(df, name) ==
    CHOOSE x \in {df[k][name] : k \in 1..Len(df)} : \A k \in 1..Len(df) : x <= df[k][name]

\* round(x, 2) of an amount of money: the nearest number of cents
RoundCents(x, err) == RoundFloat(x, 1000000, err) * 1000000

\* results_df[results_df[name] == value]['Model'].tolist()
ModelsWhere(df, name, value) ==
    LET rows == SelectSeq(df, LAMBDA row : row[name] = value)
    IN  [k \in 1..Len(rows) |-> rows[k]["Model"]]

\* sep.join(names)
RECURSIVE Join(_, _)
Join(sep, names) ==
    IF names = <<>> THEN ""
    ELSE IF Len(names) = 1 THEN names[1]
    ELSE names[1] \o sep \o Join(sep, Tail(names))

\* lowest_cost = round(results_df['Total Cost'].min(), 2)
lowest_cost(df, err) == RoundCents(ColumnMin(df, "Total Cost"), err)

\* lowest_cost_models
lowest_cost_models(df, err) == ModelsWhere(df, "Total Cost", lowest_cost(df, err))

\* highest_score_models_str = ', '.join(lowest_cost_models): the models the label
\* of the 'Best Results' metric names
highest_score_models_str(df, err) == Join(", ", lowest_cost_models(df, err))

\* the models of the rows whose Summary Score (a fraction) is the highest of the
\* table
TopScorers(df) ==
    LET AtMost(a, b) == a.num * b.den <= b.num * a.den
        rows == SelectSeq(df, LAMBDA row :
                    \A k \in 1..Len(df) : AtMost(df[k]["Summary Score"], row["Summary Score"]))
    IN  [k \in 1..Len(rows) |-> rows[k]["Model"]]

\* C29 as claimed: after a run that returned at least one row, the 'Best Results'
\* label names exactly the models whose Summary Score is the highest of the run.
BestResultsNamesTopScorers ==
    (pc = "done" /\ Len(returned[1]) >= 1) =>
        \A err \in FloatErrors :
            highest_score_models_str(returned[1], err) = Join(", ", TopScorers(returned[1]))

\* the identifiers the multiselect of app.py offers
model_options ==
    {"anthropic.claude-instant-v1", "anthropic.claude-v2", "anthropic.claude-v2:1",
     "anthropic.claude-3-haiku-20240307-v1:0",
     "anthropic.claude-3-sonnet-20240229-v1:0",
     "mistral.mistral-7b-instruct-v0:2",
     "mistral.mixtral-8x7b-instruct-v0:1",
     "mistral.mistral-large-2402-v1:0",
     "meta.llama2-13b-chat-v1",
     "meta.llama2-70b-chat-v1",
     "meta.llama3-8b-instruct-v1:0",
     "meta.llama3-70b-instruct-v1:0",
     "cohere.command-text-v14",
     "cohere.command-light-text-v14",
     "amazon.titan-text-lite-v1",
     "amazon.titan-text-express-v1",
     "ai21.j2-mid-v1",
     "ai21.j2-ultra-v1"}

\* every model of the run is one the front end offers
AllSelectable == \A k \in 1..Len(models) : models[k] \in model_options

\* an identifier the loop takes, that exactly one `if` of the body takes, and that
\* both price tables know
DispatchedOnceAndPriced(model) ==
    /\ ~IsSkipped(model)
    /\ Cardinality({f \in 1..Len(Families) : FamilyMatches(f, model)}) = 1
    /\ model \in DOMAIN model_input_token_prices
    /\ model \in DOMAIN model_output_token_prices

\* the identifiers the front end offers are each taken once and priced
OptionsDispatchedOnceAndPriced ==
    \A model \in model_options : DispatchedOnceAndPriced(model)

\* C30: every identifier the front end offers is taken by the loop, by exactly
\* one of the six family tests, and is in both price tables; so a run over
\* selectable identifiers gives each model it has passed exactly one row, in
\* input order -- one row per selected model once it has completed -- and every
\* call it prices is priced from the tables, at more than zero.
SelectableModelsRun ==
    /\ OptionsDispatchedOnceAndPriced
    /\ AllSelectable =>
           /\ Len(results_list) <= Len(models)
           /\ \A k \in 1..Len(results_list) : results_list[k]["Model"] = models[k]
           /\ pc \in {"cost", "done"} => Len(results_list) = Len(models)
           /\ pc = "done" =>
                  /\ Len(returned[1]) = Len(models)
                  /\ \A k \in 1..Len(models) : returned[1][k]["Model"] = models[k]
           /\ \A k \in 1..Len(priced) :
                  /\ priced[k].model = models[k]
                  /\ priced[k].model \in DOMAIN model_input_token_prices
                  /\ priced[k].model \in DOMAIN model_output_token_prices
                  /\ priced[k].costs[1] > 0
                  /\ priced[k].costs[2] > 0
                  /\ priced[k].costs[3] > 0

SelectableRunReached ==
    /\ pc = "done"
    /\ AllSelectable
    /\ Len(models) = MaxModels
    /\ Len(returned[1]) = MaxModels
    /\ Len(priced) = MaxModels

====
